---- MODULE Spec2Model ----
(***************************************************************************)
(* Model of the SA-Media document pipeline: the change tracker             *)
(* (file_tracker.py), the aggregate XML store (xml_handler.py), the text   *)
(* extractor wrapper (document_processor.py) and the orchestrator          *)
(* (main.py), together with the filesystem they read and write.            *)
(***************************************************************************)
EXTENDS Integers, Sequences, FiniteSets, TLC

VARIABLES
    fs,              \* the source tree: path -> [exists, mtime, content]
    trackerDisk,     \* file_tracker.json on disk
    xmlDisk,         \* the three output documents on disk, per category
    phase,           \* position of the process: off/walk/saving/done/killed/fatal/api
    tracked_files,   \* FileTracker.tracked_files (in memory)
    roots,           \* XMLHandler.roots (in memory)
    todo,            \* the files os.walk has still to yield in this run, in order: the rest
                     \* of the directory it has listed, then the directories not yet listed
    extracting,      \* the file found due, between needs_update and extract_text
    cur,             \* the file whose handling is between add_entry and update_file_timestamp
    outcome,         \* per file, the result of _process_file in this run ("" = not handled)
    counts,          \* files_processed / files_skipped / files_errored
    saveLeft,        \* categories save_all has still to save, in order
    writing,         \* category whose output file is open for writing ("" = none)
    saveLog,         \* per category: "" | "saved" | "error" (what _save_xml logged)
    now,             \* the clock datetime.now() reads (one tick per process start)
    runs,            \* number of process starts so far
    mods,            \* number of filesystem changes made by the environment so far
    faults,          \* number of kills and I/O failures so far
    calls,           \* number of direct API calls so far
    ret,             \* the last direct API call and what it returned or raised
    extractedAt,     \* history: mtime of the file version the extractor last read
    addedThisRun,    \* history: the files whose add_entry appended an entry in this process
    startDocs,       \* history: the output files as they were when this process started
    modsAtStart      \* history: the value of mods at each process start

vars == <<fs, trackerDisk, xmlDisk, phase, tracked_files, roots, todo, extracting, cur, outcome,
          counts, saveLeft, writing, saveLog, now, runs, mods, faults, calls, ret,
          extractedAt, addedThisRun, startDocs, modsAtStart>>

----------------------------------------------------------------------------
(* Bounds of the model *)

MaxTime == 3
MaxMods == 1
MaxRuns == 2
MaxFaults == 1
MaxCalls == 3

----------------------------------------------------------------------------
(* Characters and strings.  A string is a sequence of one-character strings. *)

\* str.strip() removes these; "\f" (form feed) is whitespace for Python and
\* an invalid character for XML 1.0.
Whitespace == {" ", "\n", "\r", "\f", "\t"}

\* Python None, as the value of Element.text / Element.tail
NoneText == <<"<None>">>

\* str.lower() on the characters the model uses
LowerChar(c) ==
    CASE c = "E" -> "e"
      [] c = "I" -> "i"
      [] c = "C" -> "c"
      [] c = "D" -> "d"
      [] c = "P" -> "p"
      [] c = "F" -> "f"
      [] OTHER -> c

Lower(s) == [i \in 1..Len(s) |-> LowerChar(s[i])]

\* subdir.replace('\\', '/')
NormSep(s) == [i \in 1..Len(s) |-> IF s[i] = "\\" THEN "/" ELSE s[i]]

\* Python's `needle in hay` on strings
Contains(hay, needle) ==
    \E i \in 0..(Len(hay) - Len(needle)) :
        SubSeq(hay, i + 1, i + Len(needle)) = needle

\* `not t or not t.strip()`
IsBlank(t) == t = NoneText \/ \A i \in 1..Len(t) : t[i] \in Whitespace

\* "\n".join(parts)
RECURSIVE Join(_)
Join(parts) ==
    IF Len(parts) = 0 THEN <<>>
    ELSE IF Len(parts) = 1 THEN parts[1]
    ELSE parts[1] \o <<"\n">> \o Join(Tail(parts))

----------------------------------------------------------------------------
(* Configuration (config.yaml) and the source tree *)

Categories == <<"external", "internal", "client">>
CategorySet == {"external", "internal", "client"}

Pdf  == <<".", "p", "d", "f">>
PDF  == <<".", "P", "D", "F">>
Docx == <<".", "d", "o", "c", "x">>
Tmp  == <<".", "t", "m", "p">>
Png  == <<".", "p", "n", "g">>

\* config['file_types']
document_extensions == {Pdf, Docx}
ignore_extensions == {Tmp}

\* config['folders']
FolderExternal == <<"e">>
FolderInternal == <<"I">>
FolderClient   == <<"c", "/", "d">>

\* The files of the tree: containing directory, stem and extension.
P1 == [dir |-> <<"E">>, stem |-> "a", ext |-> Pdf]
P2 == [dir |-> <<"i", "/", "e">>, stem |-> "a", ext |-> Pdf]
P3 == [dir |-> <<"C", "\\", "d">>, stem |-> "scan", ext |-> PDF]
P4 == [dir |-> <<"u">>, stem |-> "memo", ext |-> Pdf]
P5 == [dir |-> <<"i">>, stem |-> "notes", ext |-> Docx]
P6 == [dir |-> <<"i">>, stem |-> "notes", ext |-> Tmp]
P7 == [dir |-> <<"E">>, stem |-> "logo", ext |-> Png]

\* os.path.basename(file_path), as a string
Basename(p) == <<p.stem>> \o p.ext

\* os.path.splitext(file_path)[1].lower()
Extension(p) == Lower(p.ext)

\* What a document holds: its pages (PDF) or paragraphs (DOCX) as strings,
\* or ok = FALSE for a file the parsing library cannot open.
Doc(units) == [ok |-> TRUE, units |-> units]
Unreadable == [ok |-> FALSE, units |-> <<>>]

\* The contents another program may give a file
Contents ==
    { Doc(<< <<"b", "\r">> >>),
      Doc(<< <<"\f">>, <<"b">> >>),
      Doc(<< <<" ">> >>),
      Unreadable }

Files == {P1, P2, P3, P4, P5, P6, P7}

\* The files another program rewrites in the model (it may delete any)
Rewritten == {P1, P3}

\* The files of the tree in a fixed order, in which the model keeps the
\* files of the directories os.walk has not listed yet
Tree == <<P1, P7, P5, P6, P2, P3, P4>>

\* The root folder, and the directory a directory lies in
RootDir == <<>>
ParentDir(d) ==
    IF \E i \in 1..Len(d) : d[i] = "/"
    THEN SubSeq(d, 1, (CHOOSE i \in 1..Len(d) :
                          d[i] = "/" /\ \A j \in (i + 1)..Len(d) : d[j] # "/") - 1)
    ELSE RootDir

\* The tree before the first run: every file exists, written at time 2.
InitialContent(p) ==
    CASE p = P1 -> Doc(<< <<"b">> >>)
      [] p = P2 -> Doc(<< <<"b">>, <<"<">> >>)
      [] p = P3 -> Doc(<<>>)
      [] OTHER -> Doc(<< <<"b">> >>)

InitialFs == [p \in Files |-> [exists |-> TRUE, mtime |-> 2, content |-> InitialContent(p)]]

\* dict.get(key, default)
Get(m, k, d) == IF k \in DOMAIN m THEN m[k] ELSE d

\* d[k] = v on a dict
Put(m, k, v) == [x \in DOMAIN m \cup {k} |-> IF x = k THEN v ELSE m[x]]

\* del d[k]
Del(m, k) == [x \in DOMAIN m \ {k} |-> m[x]]

EmptyDict == [x \in {} |-> 0]

----------------------------------------------------------------------------
(* document_processor.py *)

supported_extensions == {Pdf, Docx}

NonEmpty(t) == Len(t) > 0
NonBlank(t) == ~IsBlank(t)

\* _extract_from_pdf: pages with a truthy text, joined by newlines; "" when
\* the file cannot be read.
ExtractFromPdf(content) ==
    IF ~content.ok THEN <<>>
    ELSE Join(SelectSeq(content.units, NonEmpty))

\* _extract_from_docx: paragraphs whose text is not blank, joined by newlines.
ExtractFromDocx(content) ==
    IF ~content.ok THEN <<>>
    ELSE Join(SelectSeq(content.units, NonBlank))

\* extract_text: [raised, text]; raises ValueError for an extension outside
\* supported_extensions.
ExtractText(p, content) ==
    IF Extension(p) \notin supported_extensions
    THEN [raised |-> TRUE, text |-> <<>>]
    ELSE IF Extension(p) = Pdf
    THEN [raised |-> FALSE, text |-> ExtractFromPdf(content)]
    ELSE [raised |-> FALSE, text |-> ExtractFromDocx(content)]

----------------------------------------------------------------------------
(* file_tracker.py *)

\* file_tracker.json: absent, a JSON object, or a file cut short by a failed write
TrackerAbsent == [kind |-> "absent", data |-> EmptyDict]
TrackerJson(m) == [kind |-> "json", data |-> m]
TrackerCorrupt == [kind |-> "corrupt", data |-> EmptyDict]

\* _load_tracker: [raised, data]; json.load raises on a file that is not JSON
LoadTracker(disk) ==
    IF disk.kind = "absent" THEN [raised |-> FALSE, data |-> EmptyDict]
    ELSE IF disk.kind = "json" THEN [raised |-> FALSE, data |-> disk.data]
    ELSE [raised |-> TRUE, data |-> EmptyDict]

\* How a write of the tracker file can end
IoOutcomes == {"ok", "open_fails", "write_fails"}

\* _save_tracker: [raised, disk]; open(.., 'w') truncates, json.dump writes
SaveTracker(m, disk, io) ==
    IF io = "ok" THEN [raised |-> FALSE, disk |-> TrackerJson(m)]
    ELSE IF io = "open_fails" THEN [raised |-> TRUE, disk |-> disk]
    ELSE [raised |-> TRUE, disk |-> TrackerCorrupt]

\* needs_update: [raised, result].  f is the tree when os.path.exists looks
\* (line 29), g the tree when os.path.getmtime reads (line 32), which
\* raises FileNotFoundError when the file has gone in between.
NeedsUpdate(m, f, g, p) ==
    IF ~f[p].exists THEN [raised |-> FALSE, result |-> FALSE]
    ELSE IF ~g[p].exists THEN [raised |-> TRUE, result |-> FALSE]
    ELSE [raised |-> FALSE, result |-> g[p].mtime > Get(m, p, 0)]

\* Mutant of update_file_timestamp: the mapping is changed in memory and
\* not written
UpdateFileTimestampUnsaved(m, disk, f, p, io) ==
    IF ~f[p].exists THEN [raised |-> TRUE, tracked |-> m, disk |-> disk]
    ELSE [raised |-> FALSE, tracked |-> Put(m, p, f[p].mtime), disk |-> disk]

\* update_file_timestamp: [raised, tracked, disk]; os.path.getmtime raises
\* when the file is gone
UpdateFileTimestamp(m, disk, f, p, io) ==
    IF ~f[p].exists THEN [raised |-> TRUE, tracked |-> m, disk |-> disk]
    ELSE LET m2 == Put(m, p, f[p].mtime)
             s == SaveTracker(m2, disk, io)
         IN [raised |-> s.raised, tracked |-> m2, disk |-> s.disk]

\* A remove_file that forgets the path in memory only
RemoveFileUnsaved(m, disk, p, io) ==
    IF p \in DOMAIN m
    THEN [raised |-> FALSE, tracked |-> Del(m, p), disk |-> disk]
    ELSE [raised |-> FALSE, tracked |-> m, disk |-> disk]

\* remove_file
RemoveFile(m, disk, p, io) ==
    IF p \in DOMAIN m
    THEN LET m2 == Del(m, p)
             s == SaveTracker(m2, disk, io)
         IN [raised |-> s.raised, tracked |-> m2, disk |-> s.disk]
    ELSE [raised |-> FALSE, tracked |-> m, disk |-> disk]

----------------------------------------------------------------------------
(* xml_handler.py: the element trees *)

\* ET.Element('Root'): the root owns the entry elements, in document order.
\* An entry is [attrib, text, tail]; attrib is the attribute dict, as the
\* sequence of <<key, value>> pairs in insertion order.
EmptyRoot == [text |-> NoneText, tail |-> NoneText, children |-> <<>>]

\* elem.get(key): the value, or None
AttrGet(attrib, k) ==
    IF \E i \in 1..Len(attrib) : attrib[i][1] = k
    THEN attrib[CHOOSE i \in 1..Len(attrib) : attrib[i][1] = k][2]
    ELSE NoneText

HasAttr(attrib, k) == \E i \in 1..Len(attrib) : attrib[i][1] = k

\* elem.set(key, value): replaces the value of a key already there
AttrSet(attrib, k, v) ==
    IF HasAttr(attrib, k)
    THEN [i \in 1..Len(attrib) |-> IF attrib[i][1] = k THEN <<k, v>> ELSE attrib[i]]
    ELSE Append(attrib, <<k, v>>)

\* for key, value in metadata.items(): entry.set(key, str(value))
RECURSIVE SetAll(_, _)
SetAll(attrib, metadata) ==
    IF Len(metadata) = 0 THEN attrib
    ELSE SetAll(AttrSet(attrib, metadata[1][1], metadata[1][2]), Tail(metadata))

\* An _entry_exists that never finds the filename
EntryExistsNever(root, filename) == FALSE

\* _entry_exists: root.findall(".//entry[@filename]"), any with that filename
EntryExists(root, filename) ==
    \E i \in 1..Len(root.children) :
        /\ HasAttr(root.children[i].attrib, "filename")
        /\ AttrGet(root.children[i].attrib, "filename") = filename

\* The element add_entry builds
NewEntry(filename, text, metadata) ==
    [attrib |-> SetAll(<< <<"filename", filename>> >>, metadata),
     text |-> text,
     tail |-> NoneText]

\* An add_entry that passes over an unknown category without raising
AddEntryUnknownIgnored(rts, category, filename, text, metadata) ==
    IF category \notin DOMAIN rts THEN [raised |-> FALSE, roots |-> rts]
    ELSE IF EntryExists(rts[category], filename) THEN [raised |-> FALSE, roots |-> rts]
    ELSE [raised |-> FALSE,
          roots |-> [rts EXCEPT ![category].children =
                         Append(@, NewEntry(filename, text, metadata))]]

\* add_entry: [raised, roots]; raises ValueError for a category not in roots
AddEntry(rts, category, filename, text, metadata) ==
    IF category \notin DOMAIN rts THEN [raised |-> TRUE, roots |-> rts]
    ELSE IF EntryExists(rts[category], filename) THEN [raised |-> FALSE, roots |-> rts]
    ELSE [raised |-> FALSE,
          roots |-> [rts EXCEPT ![category].children =
                         Append(@, NewEntry(filename, text, metadata))]]

\* "\n" + level * "  "
RECURSIVE IndentStr(_)
IndentStr(level) == IF level = 0 THEN <<"\n">> ELSE IndentStr(level - 1) \o <<" ", " ">>

\* _indent on an element without children (an entry, at level 1)
IndentLeaf(e, level) ==
    IF level # 0 /\ IsBlank(e.tail) THEN [e EXCEPT !.tail = IndentStr(level)] ELSE e

\* _indent on the root (level 0)
IndentRoot(r) ==
    IF Len(r.children) > 0
    THEN [text |-> IF IsBlank(r.text) THEN IndentStr(0) \o <<" ", " ">> ELSE r.text,
          tail |-> IF IsBlank(r.tail) THEN IndentStr(0) ELSE r.tail,
          children |-> [i \in 1..Len(r.children) |-> IndentLeaf(r.children[i], 1)]]
    ELSE r

----------------------------------------------------------------------------
(* xml_handler.py: writing and parsing the documents (ElementTree) *)

\* Characters XML 1.0 does not allow in a document
InvalidXmlChars == {"\f"}

\* _escape_cdata, per character
EscapeChar(c) ==
    CASE c = "&" -> "&amp;"
      [] c = "<" -> "&lt;"
      [] c = ">" -> "&gt;"
      [] OTHER -> c

\* Text as written: None and "" write nothing
WriteText(t) == IF t = NoneText THEN <<>> ELSE [i \in 1..Len(t) |-> EscapeChar(t[i])]

\* _escape_attrib, per character
EscapeAttrChar(c) ==
    CASE c = "&" -> "&amp;"
      [] c = "<" -> "&lt;"
      [] c = ">" -> "&gt;"
      [] c = "\"" -> "&quot;"
      [] c = "\r" -> "&#13;"
      [] c = "\n" -> "&#10;"
      [] c = "\t" -> "&#09;"
      [] OTHER -> c

WriteAttrib(attrib) ==
    [i \in 1..Len(attrib) |->
        <<attrib[i][1], [j \in 1..Len(attrib[i][2]) |-> EscapeAttrChar(attrib[i][2][j])]>>]

\* An element as written: <tag attrs>text children</tag>tail, or <tag attrs />tail
\* when it has neither text nor children.
WriteEntry(e) ==
    [attrib |-> WriteAttrib(e.attrib),
     short |-> Len(WriteText(e.text)) = 0,
     text |-> WriteText(e.text),
     tail |-> WriteText(e.tail)]

WriteRoot(r) ==
    [short |-> Len(WriteText(r.text)) = 0 /\ Len(r.children) = 0,
     text |-> WriteText(r.text),
     tail |-> WriteText(r.tail),
     children |-> [i \in 1..Len(r.children) |-> WriteEntry(r.children[i])]]

\* An output file: absent, a complete document, or a document cut short
XmlAbsent == [kind |-> "absent", root |-> WriteRoot(EmptyRoot)]
XmlPartial == [kind |-> "partial", root |-> WriteRoot(EmptyRoot)]
XmlFile(r) == [kind |-> "xml", root |-> WriteRoot(r)]

\* A document cut short within the whitespace that follows </Root>: all of
\* the root element is in the file
XmlCutAtEnd(r) == [kind |-> "xml", root |-> [WriteRoot(r) EXCEPT !.tail = <<>>]]

\* The parser on one character reference or character
UnescapeChar(c) ==
    CASE c = "&amp;" -> "&"
      [] c = "&lt;" -> "<"
      [] c = "&gt;" -> ">"
      [] c = "&quot;" -> "\""
      [] c = "&#13;" -> "\r"
      [] c = "&#10;" -> "\n"
      [] c = "&#09;" -> "\t"
      [] OTHER -> c

\* Character data as parsed: references decoded, line ends normalised
\* ("\r\n" and a lone "\r" both become "\n")
RECURSIVE ParseChars(_)
ParseChars(w) ==
    IF Len(w) = 0 THEN <<>>
    ELSE IF w[1] = "\r" /\ Len(w) > 1 /\ w[2] = "\n" THEN ParseChars(Tail(w))
    ELSE IF w[1] = "\r" THEN <<"\n">> \o ParseChars(Tail(w))
    ELSE <<UnescapeChar(w[1])>> \o ParseChars(Tail(w))

\* Element.text / Element.tail as parsed: None when there is no character data
ParseText(w) == IF Len(w) = 0 THEN NoneText ELSE ParseChars(w)

HasInvalidChar(w) == \E i \in 1..Len(w) : w[i] \in InvalidXmlChars

ParseAttrib(wa) == [i \in 1..Len(wa) |-> <<wa[i][1], ParseChars(wa[i][2])>>]

ParseEntry(we) ==
    [attrib |-> ParseAttrib(we.attrib), text |-> ParseText(we.text), tail |-> ParseText(we.tail)]

\* Whether the parser rejects the written document
NotWellFormed(wr) ==
    \/ HasInvalidChar(wr.text)
    \/ \E i \in 1..Len(wr.children) :
          \/ HasInvalidChar(wr.children[i].text)
          \/ HasInvalidChar(wr.children[i].tail)
          \/ \E j \in 1..Len(wr.children[i].attrib) :
                HasInvalidChar(wr.children[i].attrib[j][2])

\* ET.parse(file_path).getroot(): [raised (ParseError), root].  Whitespace
\* after the end of the root element is not part of the tree.
ParseXml(file) ==
    IF file.kind = "partial" \/ NotWellFormed(file.root)
    THEN [raised |-> TRUE, root |-> EmptyRoot]
    ELSE [raised |-> FALSE,
          root |-> [text |-> ParseText(file.root.text),
                    tail |-> NoneText,
                    children |-> [i \in 1..Len(file.root.children) |->
                                     ParseEntry(file.root.children[i])]]]

\* What can go wrong with the output directory while the store is built:
\* nothing, os.makedirs raises OSError, or ET.parse raises OSError on the
\* existing file of one category (it cannot be opened or read)
NoInitFault == "none"
MakedirsFails == "makedirs_fails"
InitFaults == {NoInitFault, MakedirsFails} \cup CategorySet

\* The place of a category in category_files, the order of the loading loop
CategoryIndex(c) == CHOOSE i \in 1..Len(Categories) : Categories[i] = c

\* _load_existing_files, for one category: [raised, root].  A missing file
\* is not opened; only ET.ParseError is caught, so the OSError of a file
\* that exists and cannot be read leaves the method.
LoadExisting(file, readable) ==
    IF file.kind = "absent" THEN [raised |-> FALSE, root |-> EmptyRoot]
    ELSE IF ~readable THEN [raised |-> TRUE, root |-> EmptyRoot]
    ELSE IF ParseXml(file).raised THEN [raised |-> FALSE, root |-> EmptyRoot]
    ELSE [raised |-> FALSE, root |-> ParseXml(file).root]

\* _load_existing_files: [raised, roots], each category's file on its own in
\* the order of category_files; the loop ends at the file that cannot be
\* read, and the categories from there on keep the empty roots of line 20.
LoadExistingFiles(disk, bad) ==
    LET Raises(c) == LoadExisting(disk[c], c # bad).raised
        Reached(c) == \A d \in CategorySet :
                         CategoryIndex(d) <= CategoryIndex(c) => ~Raises(d)
    IN [raised |-> \E c \in CategorySet : Raises(c),
        roots |-> [c \in CategorySet |->
                      IF Reached(c) THEN LoadExisting(disk[c], TRUE).root
                      ELSE EmptyRoot]]

\* XMLHandler.__init__: [raised, roots]; os.makedirs comes before the load
\* and its OSError is not caught either.
XMLHandlerInit(disk, bad) ==
    IF bad = MakedirsFails
    THEN [raised |-> TRUE, roots |-> [c \in CategorySet |-> EmptyRoot]]
    ELSE LoadExistingFiles(disk, bad)

----------------------------------------------------------------------------
(* main.py: the orchestrator *)

\* _determine_category with the internal folder tested before the external
DetermineCategoryInternalFirst(subdir) ==
    LET s == Lower(NormSep(subdir)) IN
    IF Contains(s, Lower(FolderInternal)) THEN "internal"
    ELSE IF Contains(s, Lower(FolderExternal)) THEN "external"
    ELSE IF Contains(s, Lower(FolderClient)) THEN "client"
    ELSE ""

\* _determine_category: the category, or "" for None
DetermineCategory(subdir) ==
    LET s == Lower(NormSep(subdir)) IN
    IF Contains(s, Lower(FolderExternal)) THEN "external"
    ELSE IF Contains(s, Lower(FolderInternal)) THEN "internal"
    ELSE IF Contains(s, Lower(FolderClient)) THEN "client"
    ELSE ""

\* str(datetime.now())
NowStr == <<ToString(now)>>

\* Mutant of the empty-text test: `not text`, without the strip()
NoTextUnstripped(text) == Len(text) = 0

\* `not text.strip()` on the extracted text
NoText(text) == \A i \in 1..Len(text) : text[i] \in Whitespace

\* _process_file without its two extension tests
ProcessFileHeadAnyExtension(p, g) ==
    IF NeedsUpdate(tracked_files, fs, g, p).raised THEN "error"
    ELSE IF ~NeedsUpdate(tracked_files, fs, g, p).result THEN "skipped"
    ELSE IF DetermineCategory(p.dir) = "" THEN "skipped"
    ELSE "due"

\* _process_file up to the try block (lines 72-92): "skipped", "due" when
\* the text is to be extracted, or "error" when needs_update raises, which
\* process_directory catches (lines 58-60).  g is the tree as it is when
\* needs_update reads the mtime.
ProcessFileHead(p, g) ==
    IF Extension(p) \in ignore_extensions THEN "skipped"
    ELSE IF Extension(p) \notin document_extensions THEN "skipped"
    ELSE IF NeedsUpdate(tracked_files, fs, g, p).raised THEN "error"
    ELSE IF ~NeedsUpdate(tracked_files, fs, g, p).result THEN "skipped"
    ELSE IF DetermineCategory(p.dir) = "" THEN "skipped"
    ELSE "due"

\* _process_file from extract_text to add_entry (lines 94-110):
\* [result, roots, extracted], result "pending" when update_file_timestamp
\* is still to be called.  A file that has vanished cannot be opened; the
\* extractor catches that and returns "".
ProcessFileBody(p) ==
    LET x == ExtractText(p, IF fs[p].exists THEN fs[p].content ELSE Unreadable)
        a == AddEntry(roots, DetermineCategory(p.dir), Basename(p), x.text,
                      << <<"processed_date", NowStr>> >>)
    IN
    IF x.raised THEN [result |-> "error", roots |-> roots, extracted |-> FALSE]
    ELSE IF NoText(x.text)
    THEN [result |-> "error", roots |-> roots, extracted |-> fs[p].exists]
    ELSE IF a.raised THEN [result |-> "error", roots |-> roots, extracted |-> TRUE]
    ELSE [result |-> "pending", roots |-> a.roots, extracted |-> TRUE]

\* Counters that leave out the files whose handling failed
CountNoErrors(c, result) ==
    IF result = "processed" THEN [c EXCEPT !.processed = @ + 1]
    ELSE IF result = "skipped" THEN [c EXCEPT !.skipped = @ + 1]
    ELSE c

\* process_directory, lines 52-57: the counters after one file's result
Count(c, result) ==
    IF result = "processed" THEN [c EXCEPT !.processed = @ + 1]
    ELSE IF result = "skipped" THEN [c EXCEPT !.skipped = @ + 1]
    ELSE [c EXCEPT !.errored = @ + 1]

ZeroCounts == [processed |-> 0, skipped |-> 0, errored |-> 0]
NoOutcome == [p \in Files |-> ""]
NoSaveLog == [c \in CategorySet |-> ""]
NoSeen == [exists |-> FALSE, mtime |-> 0]
NoRet == [op |-> "", arg |-> <<>>, seen |-> NoSeen, result |-> FALSE, raised |-> FALSE]

\* The sequences with exactly the elements of a set
Orderings(S) ==
    {o \in [1..Cardinality(S) -> S] : \A i, j \in 1..Cardinality(S) : o[i] = o[j] => i = j}

\* The directories holding files of the sequence that lie directly in d
Subdirs(d, planned) ==
    {planned[i].dir : i \in {k \in 1..Len(planned) : ParentDir(planned[k].dir) = d}}

\* os.walk is top-down: when it is done with a directory it goes into one
\* of that directory's subdirectories not yet listed, if there is one, else
\* it goes on from the directory above
RECURSIVE NextDirs(_, _)
NextDirs(d, planned) ==
    IF Subdirs(d, planned) # {} THEN Subdirs(d, planned)
    ELSE IF d = RootDir THEN {}
    ELSE NextDirs(ParentDir(d), planned)

\* os.walk lists the next directory (line 47): the ways the walk can go on
\* when it is done with directory d and planned are the files of the
\* directories not yet listed.  The listing holds the files that exist now,
\* in the order the platform gives them; a directory without files yields
\* nothing and the walk goes on from it.
RECURSIVE Listed(_, _, _)
Listed(d, planned, f) ==
    IF NextDirs(d, planned) = {} THEN {<<>>}
    ELSE UNION { LET Beyond(q) == q.dir # n
                     here == {planned[i] : i \in {k \in 1..Len(planned) :
                                 planned[k].dir = n /\ f[planned[k]].exists}}
                 IN IF here = {} THEN Listed(n, SelectSeq(planned, Beyond), f)
                    ELSE {o \o SelectSeq(planned, Beyond) : o \in Orderings(here)}
               : n \in NextDirs(d, planned) }

\* The loop of lines 47-48 goes on after a file: to the next file of the
\* directory already listed, or to the listing of the next directory
Resume(td, f) ==
    IF Tail(td) # <<>> /\ Head(Tail(td)).dir = Head(td).dir
    THEN {Tail(td)}
    ELSE Listed(Head(td).dir, Tail(td), f)

\* The process starts: DocumentProcessingPipeline.__init__ builds the
\* XMLHandler (which creates the output directory and loads the output
\* files, and raises when the directory cannot be created or an existing
\* file cannot be read) and then the FileTracker (which loads the tracker
\* file, and raises on a file that is not JSON); then process_directory
\* begins its walk and lists the first directory.
StartRun(bad) ==
    /\ phase \in {"off", "done", "killed", "fatal"}
    /\ runs < MaxRuns
    /\ bad # NoInitFault => faults < MaxFaults
    /\ bad \in CategorySet => xmlDisk[bad].kind # "absent"
    /\ faults' = IF bad # NoInitFault THEN faults + 1 ELSE faults
    /\ runs' = runs + 1
    /\ now' = now + 1
    /\ roots' = XMLHandlerInit(xmlDisk, bad).roots
    /\ startDocs' = xmlDisk
    /\ addedThisRun' = {}
    /\ outcome' = NoOutcome
    /\ counts' = ZeroCounts
    /\ saveLeft' = <<>>
    /\ writing' = ""
    /\ saveLog' = NoSaveLog
    /\ extracting' = <<>>
    /\ cur' = <<>>
    /\ IF XMLHandlerInit(xmlDisk, bad).raised \/ LoadTracker(trackerDisk).raised
       THEN /\ phase' = "fatal"
            /\ tracked_files' = EmptyDict
            /\ todo' = <<>>
       ELSE /\ phase' = "walk"
            /\ tracked_files' = LoadTracker(trackerDisk).data
            /\ todo' \in Listed(RootDir, Tree, fs)
    /\ modsAtStart' = Append(modsAtStart, mods)
    /\ UNCHANGED <<fs, trackerDisk, xmlDisk, mods, calls, ret, extractedAt>>

\* The tree without a file
Without(f, p) == [f EXCEPT ![p].exists = FALSE]

\* One file of the walk, up to the try block: the extension tests,
\* needs_update and _determine_category.  A skipped file is finished, and so
\* is one on which needs_update raises, as an error; otherwise the
\* extraction is still to come.  With vanish another program deletes the
\* file between the two system calls of needs_update.
ProcessFile(p, vanish) ==
    /\ phase = "walk"
    /\ extracting = <<>>
    /\ cur = <<>>
    /\ todo # <<>>
    /\ p = Head(todo)
    /\ vanish => (mods < MaxMods /\ ProcessFileHead(p, Without(fs, p)) = "error")
    /\ fs' = IF vanish THEN Without(fs, p) ELSE fs
    /\ mods' = IF vanish THEN mods + 1 ELSE mods
    /\ IF ProcessFileHead(p, fs') = "due"
       THEN /\ extracting' = <<p>>
            /\ UNCHANGED <<todo, outcome, counts>>
       ELSE /\ extracting' = <<>>
            /\ todo' \in Resume(todo, fs')
            /\ outcome' = [outcome EXCEPT ![p] = ProcessFileHead(p, fs')]
            /\ counts' = Count(counts, ProcessFileHead(p, fs'))
    /\ UNCHANGED <<trackerDisk, xmlDisk, phase, tracked_files, roots, cur, saveLeft,
                   writing, saveLog, now, runs, faults, calls, ret, extractedAt,
                   addedThisRun, startDocs, modsAtStart>>

\* The due file is opened and read, and its entry added (lines 94-110).  A
\* file without text is finished as an error; otherwise the tracker update
\* is still to come.
ExtractAndAdd ==
    /\ phase = "walk"
    /\ extracting # <<>>
    /\ LET p == extracting[1]
           b == ProcessFileBody(p)
       IN
        /\ roots' = b.roots
        /\ addedThisRun' = IF b.roots # roots THEN addedThisRun \cup {p} ELSE addedThisRun
        /\ extractedAt' = IF b.extracted THEN [extractedAt EXCEPT ![p] = fs[p].mtime]
                          ELSE extractedAt
        /\ IF b.result = "pending"
           THEN /\ cur' = <<p>>
                /\ UNCHANGED <<todo, outcome, counts>>
           ELSE /\ cur' = <<>>
                /\ todo' \in Resume(todo, fs)
                /\ outcome' = [outcome EXCEPT ![p] = b.result]
                /\ counts' = Count(counts, b.result)
    /\ extracting' = <<>>
    /\ UNCHANGED <<fs, trackerDisk, xmlDisk, phase, tracked_files, saveLeft, writing,
                   saveLog, now, runs, mods, faults, calls, ret, startDocs, modsAtStart>>

\* The rest of _process_file (lines 112-118): update_file_timestamp, whose
\* failure is caught and makes the result "error".
MarkProcessed(io) ==
    /\ phase = "walk"
    /\ cur # <<>>
    /\ io # "ok" => faults < MaxFaults
    /\ LET p == cur[1]
           u == UpdateFileTimestamp(tracked_files, trackerDisk, fs, p, io)
           result == IF u.raised THEN "error" ELSE "processed"
       IN
        /\ tracked_files' = u.tracked
        /\ trackerDisk' = u.disk
        /\ faults' = IF io # "ok" /\ fs[p].exists THEN faults + 1 ELSE faults
        /\ outcome' = [outcome EXCEPT ![p] = result]
        /\ counts' = Count(counts, result)
        /\ todo' \in Resume(todo, fs)
    /\ cur' = <<>>
    /\ UNCHANGED <<fs, xmlDisk, phase, roots, extracting, saveLeft, writing, saveLog, now,
                   runs, mods, calls, ret, extractedAt, addedThisRun, startDocs,
                   modsAtStart>>

\* The process is killed inside _save_tracker of update_file_timestamp,
\* after open(.., 'w') has truncated the tracker file and before json.dump
\* has written it: the file is left empty or cut short.
KillInSaveTracker ==
    /\ phase = "walk"
    /\ cur # <<>>
    /\ fs[cur[1]].exists
    /\ faults < MaxFaults
    /\ faults' = faults + 1
    /\ tracked_files' = Put(tracked_files, cur[1], fs[cur[1]].mtime)
    /\ trackerDisk' = TrackerCorrupt
    /\ phase' = "killed"
    /\ UNCHANGED <<fs, xmlDisk, roots, todo, extracting, cur, outcome, counts, saveLeft,
                   writing, saveLog, now, runs, mods, calls, ret, extractedAt,
                   addedThisRun, startDocs, modsAtStart>>

\* save_all called from within the loop over the files
BeginSaveAllEarly ==
    /\ \/ phase = "walk" /\ extracting = <<>> /\ cur = <<>> /\ UNCHANGED calls
       \/ phase = "api" /\ calls < MaxCalls /\ calls' = calls + 1
    /\ phase' = "saving"
    /\ saveLeft' = Categories
    /\ saveLog' = NoSaveLog
    /\ UNCHANGED <<fs, trackerDisk, xmlDisk, tracked_files, roots, todo, extracting, cur, outcome,
                   counts, writing, now, runs, mods, faults, ret,
                   extractedAt, addedThisRun, startDocs, modsAtStart>>

\* save_all is called (by process_directory, line 63, when the walk is over,
\* or directly by a client) and starts its loop over self.roots.items()
BeginSaveAll ==
    /\ \/ phase = "walk" /\ todo = <<>> /\ extracting = <<>> /\ cur = <<>> /\ UNCHANGED calls
       \/ phase = "api" /\ calls < MaxCalls /\ calls' = calls + 1
    /\ phase' = "saving"
    /\ saveLeft' = Categories
    /\ saveLog' = NoSaveLog
    /\ UNCHANGED <<fs, trackerDisk, xmlDisk, tracked_files, roots, todo, extracting, cur, outcome,
                   counts, writing, now, runs, mods, faults, ret,
                   extractedAt, addedThisRun, startDocs, modsAtStart>>

\* Mutant of save_all: a failed save ends the loop
AfterSaveErrorStops(left) == <<>>

\* What save_all does after _save_xml caught and logged a failure: the loop
\* goes on with the next category
AfterSaveError(left) == Tail(left)

\* _save_xml, first half: _indent(root), then tree.write opens the output
\* file, which truncates it; a failure to open is caught and logged.
SaveOpen(io) ==
    /\ phase = "saving"
    /\ writing = ""
    /\ saveLeft # <<>>
    /\ io # "ok" => faults < MaxFaults
    /\ LET c == Head(saveLeft) IN
        /\ roots' = [roots EXCEPT ![c] = IndentRoot(@)]
        /\ IF io = "ok"
           THEN /\ xmlDisk' = [xmlDisk EXCEPT ![c] = XmlPartial]
                /\ writing' = c
                /\ UNCHANGED <<saveLeft, saveLog, faults>>
           ELSE /\ saveLog' = [saveLog EXCEPT ![c] = "error"]
                /\ saveLeft' = AfterSaveError(saveLeft)
                /\ faults' = faults + 1
                /\ UNCHANGED <<xmlDisk, writing>>
    /\ UNCHANGED <<fs, trackerDisk, phase, tracked_files, todo, extracting, cur, outcome, counts,
                   now, runs, mods, calls, ret, extractedAt, addedThisRun, startDocs, modsAtStart>>

\* How the write of an opened output file can end: it succeeds, it fails
\* with the root element not yet complete in the file, or it fails on the
\* whitespace after the root element
WriteOutcomes == {"ok", "write_fails", "write_fails_at_end"}

\* _save_xml, second half: the document is written and the file closed; a
\* failure while writing is caught and logged, and leaves the file cut
\* short, which it can only be after </Root> when something follows it.
SaveWrite(io) ==
    /\ phase = "saving"
    /\ writing # ""
    /\ io # "ok" => faults < MaxFaults
    /\ io = "write_fails_at_end" => WriteRoot(roots[writing]).tail # <<>>
    /\ LET c == writing IN
        IF io = "ok"
        THEN /\ xmlDisk' = [xmlDisk EXCEPT ![c] = XmlFile(roots[c])]
             /\ saveLog' = [saveLog EXCEPT ![c] = "saved"]
             /\ saveLeft' = Tail(saveLeft)
             /\ UNCHANGED faults
        ELSE /\ saveLog' = [saveLog EXCEPT ![c] = "error"]
             /\ saveLeft' = AfterSaveError(saveLeft)
             /\ faults' = faults + 1
             /\ xmlDisk' = IF io = "write_fails_at_end"
                           THEN [xmlDisk EXCEPT ![c] = XmlCutAtEnd(roots[c])]
                           ELSE xmlDisk
    /\ writing' = ""
    /\ UNCHANGED <<fs, trackerDisk, phase, tracked_files, roots, todo, extracting, cur, outcome,
                   counts, now, runs, mods, calls, ret, extractedAt, addedThisRun,
                   startDocs, modsAtStart>>

\* save_all returns: to process_directory, which logs the counts (lines
\* 65-68) and ends the process, or to the client that called it directly.
SaveAllReturns ==
    /\ phase = "saving"
    /\ saveLeft = <<>>
    /\ writing = ""
    /\ phase' = IF runs = 0 THEN "api" ELSE "done"
    /\ UNCHANGED <<fs, trackerDisk, xmlDisk, tracked_files, roots, todo, extracting, cur, outcome,
                   counts, saveLeft, writing, saveLog, now, runs, mods, faults, calls,
                   ret, extractedAt, addedThisRun, startDocs, modsAtStart>>

\* The process is killed from outside, at any point of a run.  What it held
\* in memory is gone; the variables keep it as a record of what was lost.
Kill ==
    /\ phase \in {"walk", "saving"}
    /\ faults < MaxFaults
    /\ faults' = faults + 1
    /\ phase' = "killed"
    /\ UNCHANGED <<fs, trackerDisk, xmlDisk, tracked_files, roots, todo, extracting, cur, outcome,
                   counts, saveLeft, writing, saveLog, now, runs, mods, calls, ret,
                   extractedAt, addedThisRun, startDocs, modsAtStart>>

----------------------------------------------------------------------------
(* The environment: other programs change the source tree *)

\* A file is written (created or replaced) with the given content and mtime
EnvModify(p, content, mtime) ==
    /\ mods < MaxMods
    /\ mods' = mods + 1
    /\ fs' = [fs EXCEPT ![p] = [exists |-> TRUE, mtime |-> mtime, content |-> content]]
    /\ UNCHANGED <<trackerDisk, xmlDisk, phase, tracked_files, roots, todo, extracting, cur, outcome,
                   counts, saveLeft, writing, saveLog, now, runs, faults, calls, ret,
                   extractedAt, addedThisRun, startDocs, modsAtStart>>

\* A file is deleted
EnvDelete(p) ==
    /\ mods < MaxMods
    /\ fs[p].exists
    /\ mods' = mods + 1
    /\ fs' = [fs EXCEPT ![p].exists = FALSE]
    /\ UNCHANGED <<trackerDisk, xmlDisk, phase, tracked_files, roots, todo, extracting, cur, outcome,
                   counts, saveLeft, writing, saveLog, now, runs, faults, calls, ret,
                   extractedAt, addedThisRun, startDocs, modsAtStart>>

----------------------------------------------------------------------------
(* The pipeline: runs of main(), with the tree changing underneath *)

Init ==
    /\ fs = InitialFs
    /\ trackerDisk = TrackerAbsent
    /\ xmlDisk = [c \in CategorySet |-> XmlAbsent]
    /\ phase = "off"
    /\ tracked_files = EmptyDict
    /\ roots = [c \in CategorySet |-> EmptyRoot]
    /\ todo = <<>>
    /\ extracting = <<>>
    /\ cur = <<>>
    /\ outcome = NoOutcome
    /\ counts = ZeroCounts
    /\ saveLeft = <<>>
    /\ writing = ""
    /\ saveLog = NoSaveLog
    /\ now = 0
    /\ runs = 0
    /\ mods = 0
    /\ faults = 0
    /\ calls = 0
    /\ ret = NoRet
    /\ extractedAt = [p \in Files |-> 0]
    /\ addedThisRun = {}
    /\ startDocs = [c \in CategorySet |-> XmlAbsent]
    /\ modsAtStart = <<>>

Next ==
    \/ \E bad \in InitFaults : StartRun(bad)
    \/ \E p \in Files, vanish \in BOOLEAN : ProcessFile(p, vanish)
    \/ ExtractAndAdd
    \/ \E io \in IoOutcomes : MarkProcessed(io)
    \/ KillInSaveTracker
    \/ BeginSaveAll
    \/ \E io \in {"ok", "open_fails"} : SaveOpen(io)
    \/ \E io \in WriteOutcomes : SaveWrite(io)
    \/ SaveAllReturns
    \/ Kill
    \/ \E p \in Rewritten, content \in Contents, mtime \in 1..MaxTime :
          EnvModify(p, content, mtime)
    \/ \E p \in Files : EnvDelete(p)

Spec == Init /\ [][Next]_vars

----------------------------------------------------------------------------
(* The tracker on its own: a client calls the FileTracker API directly *)

TrackerFiles == {P1, P3}

\* needs_update(file_path); ret keeps what the call saw of the file when it
\* looked whether the file exists.  With vanish another program deletes the
\* file between the two system calls of needs_update.
ApiNeedsUpdate(p, vanish) ==
    /\ phase = "api"
    /\ vanish => (mods < MaxMods /\ fs[p].exists)
    /\ fs' = IF vanish THEN Without(fs, p) ELSE fs
    /\ mods' = IF vanish THEN mods + 1 ELSE mods
    /\ ret' = [op |-> "needs_update", arg |-> <<p>>,
               seen |-> [exists |-> fs[p].exists, mtime |-> fs[p].mtime],
               result |-> NeedsUpdate(tracked_files, fs, fs', p).result,
               raised |-> NeedsUpdate(tracked_files, fs, fs', p).raised]
    /\ UNCHANGED <<trackerDisk, xmlDisk, phase, tracked_files, roots, todo, extracting, cur,
                   outcome, counts, saveLeft, writing, saveLog, now, runs, faults,
                   calls, extractedAt, addedThisRun, startDocs, modsAtStart>>

\* update_file_timestamp(file_path)
ApiUpdateFileTimestamp(p, io) ==
    /\ phase = "api"
    /\ io # "ok" => faults < MaxFaults
    /\ LET u == UpdateFileTimestamp(tracked_files, trackerDisk, fs, p, io) IN
        /\ tracked_files' = u.tracked
        /\ trackerDisk' = u.disk
        /\ faults' = IF io # "ok" /\ fs[p].exists THEN faults + 1 ELSE faults
        /\ ret' = [op |-> "update_file_timestamp", arg |-> <<p>>,
                   seen |-> [exists |-> fs[p].exists, mtime |-> fs[p].mtime],
                   result |-> FALSE, raised |-> u.raised]
    /\ UNCHANGED <<fs, xmlDisk, phase, roots, todo, extracting, cur, outcome, counts, saveLeft,
                   writing, saveLog, now, runs, mods, calls, extractedAt, addedThisRun,
                   startDocs, modsAtStart>>

\* remove_file(file_path); ret.result tells whether the path was tracked
ApiRemoveFile(p, io) ==
    /\ phase = "api"
    /\ io # "ok" => faults < MaxFaults
    /\ LET u == RemoveFile(tracked_files, trackerDisk, p, io) IN
        /\ tracked_files' = u.tracked
        /\ trackerDisk' = u.disk
        /\ faults' = IF io # "ok" /\ p \in DOMAIN tracked_files THEN faults + 1 ELSE faults
        /\ ret' = [op |-> "remove_file", arg |-> <<p>>,
                   seen |-> [exists |-> fs[p].exists, mtime |-> fs[p].mtime],
                   result |-> p \in DOMAIN tracked_files, raised |-> u.raised]
    /\ UNCHANGED <<fs, xmlDisk, phase, roots, todo, extracting, cur, outcome, counts, saveLeft,
                   writing, saveLog, now, runs, mods, calls, extractedAt, addedThisRun,
                   startDocs, modsAtStart>>

\* FileTracker() was constructed where no tracker file existed
InitApi ==
    /\ fs = InitialFs
    /\ trackerDisk = TrackerAbsent
    /\ xmlDisk = [c \in CategorySet |-> XmlAbsent]
    /\ phase = "api"
    /\ tracked_files = LoadTracker(TrackerAbsent).data
    /\ roots = XMLHandlerInit([c \in CategorySet |-> XmlAbsent], NoInitFault).roots
    /\ todo = <<>>
    /\ extracting = <<>>
    /\ cur = <<>>
    /\ outcome = NoOutcome
    /\ counts = ZeroCounts
    /\ saveLeft = <<>>
    /\ writing = ""
    /\ saveLog = NoSaveLog
    /\ now = 0
    /\ runs = 0
    /\ mods = 0
    /\ faults = 0
    /\ calls = 0
    /\ ret = NoRet
    /\ extractedAt = [p \in Files |-> 0]
    /\ addedThisRun = {}
    /\ startDocs = [c \in CategorySet |-> XmlAbsent]
    /\ modsAtStart = <<>>

NextTracker ==
    \/ \E p \in TrackerFiles, vanish \in BOOLEAN : ApiNeedsUpdate(p, vanish)
    \/ \E p \in TrackerFiles, io \in IoOutcomes : ApiUpdateFileTimestamp(p, io)
    \/ \E p \in TrackerFiles, io \in IoOutcomes : ApiRemoveFile(p, io)
    \/ \E p \in TrackerFiles, mtime \in 1..MaxTime : EnvModify(p, fs[p].content, mtime)
    \/ \E p \in TrackerFiles : EnvDelete(p)

SpecTracker == InitApi /\ [][NextTracker]_vars

----------------------------------------------------------------------------
(* The store on its own: a client calls the XMLHandler API directly *)

ApiCategories == {"external", "client", "archive"}
ApiFilenames == {Basename(P1), Basename(P5)}
ApiTexts == {<<"b">>, <<"c", "\n", "d">>}
ApiMetadata ==
    { <<>>,
      << <<"processed_date", <<"1">>>> >>,
      << <<"author", <<"x">>>>, <<"filename", Basename(P5)>> >> }

\* add_entry(category, filename, text, metadata)
ApiAddEntry(category, filename, text, metadata) ==
    /\ phase = "api"
    /\ calls < MaxCalls
    /\ calls' = calls + 1
    /\ LET a == AddEntry(roots, category, filename, text, metadata) IN
        /\ roots' = a.roots
        /\ ret' = [op |-> "add_entry", arg |-> <<category, filename>>, seen |-> NoSeen,
                   result |-> a.roots # roots, raised |-> a.raised]
    /\ UNCHANGED <<fs, trackerDisk, xmlDisk, phase, tracked_files, todo, extracting, cur, outcome,
                   counts, saveLeft, writing, saveLog, now, runs, mods, faults,
                   extractedAt, addedThisRun, startDocs, modsAtStart>>

\* XMLHandler(output_dir, config) is constructed again: it loads the output
\* files; when the constructor raises there is no handler
ApiNewHandler(bad) ==
    /\ phase \in {"api", "killed", "fatal"}
    /\ calls < MaxCalls
    /\ bad # NoInitFault => faults < MaxFaults
    /\ bad \in CategorySet => xmlDisk[bad].kind # "absent"
    /\ faults' = IF bad # NoInitFault THEN faults + 1 ELSE faults
    /\ calls' = calls + 1
    /\ phase' = IF XMLHandlerInit(xmlDisk, bad).raised THEN "fatal" ELSE "api"
    /\ roots' = XMLHandlerInit(xmlDisk, bad).roots
    /\ startDocs' = xmlDisk
    /\ saveLeft' = <<>>
    /\ writing' = ""
    /\ ret' = [op |-> "XMLHandler", arg |-> <<>>, seen |-> NoSeen,
               result |-> FALSE, raised |-> XMLHandlerInit(xmlDisk, bad).raised]
    /\ UNCHANGED <<fs, trackerDisk, xmlDisk, tracked_files, todo, extracting, cur, outcome, counts,
                   saveLog, now, runs, mods, extractedAt, addedThisRun,
                   modsAtStart>>

NextStore ==
    \/ \E c \in ApiCategories, fn \in ApiFilenames, t \in ApiTexts, md \in ApiMetadata :
          ApiAddEntry(c, fn, t, md)
    \/ BeginSaveAll
    \/ \E io \in {"ok", "open_fails"} : SaveOpen(io)
    \/ \E io \in WriteOutcomes : SaveWrite(io)
    \/ SaveAllReturns
    \/ Kill
    \/ \E bad \in InitFaults : ApiNewHandler(bad)

SpecStore == InitApi /\ [][NextStore]_vars

----------------------------------------------------------------------------
(* Claims about the tracker *)

\* The recorded value of a path, 0 when the path is not in the mapping
Recorded(p) == IF p \in DOMAIN tracked_files THEN tracked_files[p] ELSE 0

\* C1: needs_update(path) returns: false when the path does not exist; for
\* an existing path true exactly when the file's mtime is strictly greater
\* than the recorded value (0 when the path is not in the mapping).
C1_NeedsUpdateStrict ==
    ret.op = "needs_update" =>
        LET p == ret.arg[1] IN
        /\ ~ret.raised
        /\ ~ret.seen.exists => ret.result = FALSE
        /\ ret.seen.exists => (ret.result <=> ret.seen.mtime > Recorded(p))

\* C8: after every completed mutating tracker call (update_file_timestamp,
\* or remove_file of a tracked path) the tracker file on disk is a complete
\* JSON document holding exactly the in-memory mapping.
C8_PersistedEqualsMemory ==
    (/\ ret.op \in {"update_file_timestamp", "remove_file"}
     /\ ~ret.raised
     /\ ret.op = "remove_file" => ret.result)
    => /\ trackerDisk.kind = "json"
       /\ LoadTracker(trackerDisk).data = tracked_files

\* C8 witness: a completed update left two paths in the mapping, both on disk.
C8_Witness ==
    /\ ret.op = "update_file_timestamp"
    /\ ~ret.raised
    /\ DOMAIN tracked_files = TrackerFiles
    /\ trackerDisk = TrackerJson(tracked_files)

----------------------------------------------------------------------------
(* Claims about the store *)

\* The filename attributes of a root's entries, in document order
Filenames(root) ==
    [i \in 1..Len(root.children) |-> AttrGet(root.children[i].attrib, "filename")]

\* The filename attributes of the entries of a written document
DiskFilenames(file) ==
    [i \in 1..Len(file.root.children) |->
        AttrGet(ParseAttrib(file.root.children[i].attrib), "filename")]

NoDuplicates(seq) == \A i, j \in 1..Len(seq) : seq[i] = seq[j] => i = j

IsPrefix(a, b) == Len(a) <= Len(b) /\ SubSeq(b, 1, Len(a)) = a

\* C5: every category document, in memory and as saved, holds at most one
\* entry per filename, whatever the text and metadata of the add_entry calls.
C5_OneEntryPerFilename ==
    \A c \in CategorySet :
        /\ NoDuplicates(Filenames(roots[c]))
        /\ xmlDisk[c].kind = "xml" => NoDuplicates(DiskFilenames(xmlDisk[c]))

\* C9: an output file is never left cut short: a document that is not
\* complete is on disk only while _save_xml is writing it.
C9_NoPartialDocument ==
    \A c \in CategorySet :
        xmlDisk[c].kind = "partial" => (phase = "saving" /\ writing = c)

\* C10: when save_all has returned, the save of every category was
\* attempted (it logged success or an error), whichever of them failed.
C10_SaveAllAttemptsAll ==
    phase = "done" => \A c \in CategorySet : saveLog[c] \in {"saved", "error"}

\* C10 witness: the run ended, the first category's save failed and the
\* two after it were saved.
C10_Witness ==
    /\ phase = "done"
    /\ saveLog["external"] = "error"
    /\ saveLog["internal"] = "saved"
    /\ saveLog["client"] = "saved"

----------------------------------------------------------------------------
(* Claims about runs of the pipeline *)

\* The text the extractor returns for a file as it is now
TextOf(p) == ExtractText(p, fs[p].content)

\* C2: a second run with no change of the tree since the first run began,
\* and no kill or I/O failure, skips every file that is tracked with mtime <=
\* its recorded value, adds no entry, and saves the three documents exactly
\* as the first run saved them.
C2_SecondRunIdempotent ==
    (phase = "done" /\ runs = 2 /\ faults = 0 /\ modsAtStart[1] = mods) =>
        /\ \A p \in DOMAIN tracked_files :
              (fs[p].exists /\ fs[p].mtime <= tracked_files[p]) => outcome[p] = "skipped"
        /\ addedThisRun = {}
        /\ xmlDisk = startDocs

\* C3: the document a run saves for a category holds every entry of the
\* output file the run started from, in the same order, before any new entry
\* (stated for runs without any kill or I/O failure).
C3_OutputOnlyGrows ==
    \A c \in CategorySet :
        (runs >= 1 /\ faults = 0 /\ saveLog[c] = "saved" /\ startDocs[c].kind = "xml") =>
            IsPrefix(DiskFilenames(startDocs[c]), DiskFilenames(xmlDisk[c]))

\* Whether the saved document of the file's category has an entry for it
Persisted(p) ==
    /\ DetermineCategory(p.dir) # ""
    /\ xmlDisk[DetermineCategory(p.dir)].kind = "xml"
    /\ \E i \in 1..Len(DiskFilenames(xmlDisk[DetermineCategory(p.dir)])) :
          DiskFilenames(xmlDisk[DetermineCategory(p.dir)])[i] = Basename(p)

\* C4: when a run is killed, every file whose entry was added in that run
\* and is not in the saved output is reported due by the persisted tracker,
\* so a restarted run processes it again.
C4_UnsavedEntriesStayDue ==
    phase = "killed" =>
        \A p \in addedThisRun :
            (fs[p].exists /\ ~Persisted(p)) =>
                NeedsUpdate(LoadTracker(trackerDisk).data, fs, fs, p).result

\* The step takes up the file at the head of the walk: it skips the file
\* or finds it due
Handles(p) ==
    /\ phase = "walk" /\ extracting = <<>> /\ cur = <<>>
    /\ todo # <<>> /\ Head(todo) = p
    /\ extracting' = <<p>> \/ outcome'[p] # outcome[p]

\* The step extracts the text of the file that was found due
Extracts(p) == phase = "walk" /\ extracting = <<p>> /\ extracting' = <<>>

\* A due, categorised file with a supported extension whose extraction
\* returns empty or whitespace-only text
BlankDue(p) ==
    /\ Lower(p.ext) \in document_extensions \ ignore_extensions
    /\ fs[p].exists /\ fs[p].mtime > Recorded(p)
    /\ DetermineCategory(p.dir) \in CategorySet
    /\ ~TextOf(p).raised
    /\ \A i \in 1..Len(TextOf(p).text) : TextOf(p).text[i] \in Whitespace

\* C6: handling a due, categorised file whose extraction returns empty or
\* whitespace-only text gives the outcome "error", adds no entry, changes the
\* tracker neither in memory nor on disk, and leaves the file due.
C6_BlankExtractionIsError ==
    [][\A p \in Files :
          (Extracts(p) /\ BlankDue(p)) =>
              /\ outcome'[p] = "error"
              /\ counts' = [counts EXCEPT !.errored = @ + 1]
              /\ roots' = roots
              /\ tracked_files' = tracked_files
              /\ trackerDisk' = trackerDisk
              /\ fs'[p].exists /\ fs'[p].mtime > Get(tracked_files', p, 0)]_vars

\* C6 witness: a file with whitespace-only (not empty) text got the outcome
\* "error" and is still due.
C6_Witness ==
    \E p \in Files :
        /\ phase = "walk"
        /\ outcome[p] = "error"
        /\ BlankDue(p)
        /\ Len(TextOf(p).text) > 0
        /\ \A c \in CategorySet : ~EntryExists(roots[c], Basename(p))

\* C7: the value recorded for a path is the mtime of the file version whose
\* text was extracted.
C7_RecordedIsExtractedVersion ==
    \A p \in DOMAIN tracked_files : tracked_files[p] = extractedAt[p]

----------------------------------------------------------------------------
(* Claims about the initialization of the store *)

\* An output file that is present and that the XML parser rejects
Unparseable(file) == file.kind # "absent" /\ ParseXml(file).raised

\* C11: constructing the store at the start of a run is never fatal (a
\* start is fatal only when the tracker file cannot be loaded) and treats
\* each category on its own: a parseable output file becomes the in-memory
\* root, a missing file gives a fresh empty document, and a file that is
\* present but unparseable gives a fresh empty document, whatever the files
\* of the other two categories are.
C11_StoreInitPerCategory ==
    [][runs' = runs + 1 =>
          /\ phase' = "fatal" => LoadTracker(trackerDisk).raised
          /\ \A c \in CategorySet :
                /\ xmlDisk[c].kind = "absent" => roots'[c] = EmptyRoot
                /\ Unparseable(xmlDisk[c]) => roots'[c] = EmptyRoot
                /\ (xmlDisk[c].kind = "xml" /\ ~Unparseable(xmlDisk[c])) =>
                      /\ roots'[c] = ParseXml(xmlDisk[c]).root
                      /\ Filenames(roots'[c]) = DiskFilenames(xmlDisk[c])]_vars

----------------------------------------------------------------------------
(* Claims about the handling of one file *)

\* The file's lowercased extension is ignored or is not a document extension
NotADocument(p) ==
    Lower(p.ext) \in ignore_extensions \/ Lower(p.ext) \notin document_extensions

\* C12: handling a file whose lowercased extension is in the ignore set or
\* not in the document-extensions set gives the outcome "skipped" in that one
\* step and leaves the tracker mapping, the tracker file and the three
\* in-memory documents unchanged; nothing is extracted.
C12_NotADocumentIsSkipped ==
    [][\A p \in Files :
          (Handles(p) /\ NotADocument(p)) =>
              /\ outcome'[p] = "skipped"
              /\ counts' = [counts EXCEPT !.skipped = @ + 1]
              /\ extracting' = <<>> /\ cur' = <<>> /\ Len(todo') < Len(todo)
              /\ tracked_files' = tracked_files
              /\ trackerDisk' = trackerDisk
              /\ roots' = roots
              /\ xmlDisk' = xmlDisk
              /\ extractedAt' = extractedAt]_vars

\* C12 witness: an ignored file and an unsupported file, both present,
\* untracked and in a categorised folder, were skipped.
C12_Witness ==
    /\ phase = "walk"
    /\ outcome[P6] = "skipped" /\ outcome[P7] = "skipped"
    /\ fs[P6].exists /\ fs[P7].exists
    /\ P6 \notin DOMAIN tracked_files /\ P7 \notin DOMAIN tracked_files
    /\ DetermineCategory(P6.dir) # "" /\ DetermineCategory(P7.dir) # ""
    /\ Lower(P6.ext) \in ignore_extensions
    /\ Lower(P7.ext) \notin document_extensions \cup ignore_extensions

\* The configured folder name of a category
FolderOf(c) ==
    IF c = "external" THEN FolderExternal
    ELSE IF c = "internal" THEN FolderInternal
    ELSE FolderClient

\* The folder name of the category occurs in the directory path, ignoring
\* case and with backslashes read as slashes
FolderOccurs(c, dir) == Contains(Lower(NormSep(dir)), Lower(FolderOf(c)))

\* The first of external, internal, client whose folder occurs, "" if none
FirstCategory(dir) ==
    IF \A i \in 1..Len(Categories) : ~FolderOccurs(Categories[i], dir) THEN ""
    ELSE Categories[CHOOSE i \in 1..Len(Categories) :
                        /\ FolderOccurs(Categories[i], dir)
                        /\ \A j \in 1..(i - 1) : ~FolderOccurs(Categories[j], dir)]

\* A present file with a document extension that the tracker reports due
DueDocument(p) ==
    /\ ~NotADocument(p)
    /\ fs[p].exists /\ fs[p].mtime > Recorded(p)

\* C13: a due document is filed under the first of external, internal,
\* client whose configured folder name occurs (case-insensitively, separators
\* normalized) in its directory path: handling it changes no other
\* category's document, and an entry it adds is in that category.  When no
\* folder occurs the outcome is "skipped", nothing is extracted, and neither
\* the tracker nor the store changes.
C13_FirstMatchingCategory ==
    [][\A p \in Files :
          /\ (Handles(p) /\ DueDocument(p) /\ fs'[p].exists) =>
                IF FirstCategory(p.dir) = ""
                THEN /\ outcome'[p] = "skipped"
                     /\ counts' = [counts EXCEPT !.skipped = @ + 1]
                     /\ extracting' = <<>>
                     /\ roots' = roots
                     /\ tracked_files' = tracked_files
                     /\ trackerDisk' = trackerDisk
                     /\ extractedAt' = extractedAt
                ELSE extracting' = <<p>> /\ outcome'[p] = ""
          /\ Extracts(p) =>
                /\ FirstCategory(p.dir) # ""
                /\ \A c \in CategorySet \ {FirstCategory(p.dir)} : roots'[c] = roots[c]
                /\ roots' # roots =>
                      /\ ~EntryExists(roots[FirstCategory(p.dir)], Basename(p))
                      /\ EntryExists(roots'[FirstCategory(p.dir)], Basename(p))
                /\ (fs[p].exists /\ ~TextOf(p).raised /\ ~NoText(TextOf(p).text)
                     /\ ~EntryExists(roots[FirstCategory(p.dir)], Basename(p)))
                      => roots' # roots]_vars

\* C13 witness: in one run a due document in a folder matching no category
\* was skipped, a document whose path holds both the internal and the
\* external folder name was filed as external, and one whose path matches
\* the client folder only through case and separator was filed as client.
C13_Witness ==
    /\ phase = "walk"
    /\ outcome[P4] = "skipped" /\ P4 \notin DOMAIN tracked_files /\ fs[P4].exists
    /\ FolderOccurs("internal", P2.dir) /\ FolderOccurs("external", P2.dir)
    /\ P2 \in addedThisRun
    /\ EntryExists(roots["external"], Basename(P2))
    /\ ~EntryExists(roots["internal"], Basename(P2))
    /\ P3.dir # FolderClient
    /\ P3 \in addedThisRun
    /\ EntryExists(roots["client"], Basename(P3))

\* The number of files with the given outcome in this run
Tally(result) == Cardinality({p \in Files : outcome[p] = result})

\* The files in a sequence
Range(seq) == {seq[i] : i \in 1..Len(seq)}

\* The step ends the handling of a file
Finishes(p) ==
    /\ phase = "walk" /\ todo # <<>> /\ Head(todo) = p
    /\ todo' # todo

\* The walk goes on after the file: every other file it had still to yield
\* is still to come, but for files that are gone when their directory is
\* listed
WalkGoesOn(p) ==
    /\ phase' = "walk"
    /\ Range(todo') \subseteq Range(todo) \ {p}
    /\ \A q \in Range(todo) \ Range(todo') : q = p \/ ~fs'[q].exists

\* The step is the extraction from the file found due, and the file has
\* vanished since needs_update saw it
ExtractFails(p) == Extracts(p) /\ ~fs[p].exists

\* The step takes up a document that vanishes while needs_update looks at
\* it, so that needs_update raises
NeedsUpdateRaises(p) ==
    Handles(p) /\ ~NotADocument(p) /\ fs[p].exists /\ ~fs'[p].exists

\* The step is the tracker update of the current file and the update raises:
\* the file has vanished since its text was extracted, or the write of the
\* tracker file fails
UpdateRaises(p) ==
    /\ phase = "walk" /\ cur = <<p>> /\ cur' = <<>>
    /\ ~fs[p].exists \/ faults' = faults + 1

\* C14: a failure while one file is handled is caught and counted as exactly
\* one error for that file, and the walk goes on: every file of the walk is
\* handled once, each adds one to exactly one of processed, skipped,
\* errored, and save_all starts only when no file is left.
C14_FailureIsOneError ==
    [][/\ \A p \in Files :
            /\ (UpdateRaises(p) \/ ExtractFails(p) \/ NeedsUpdateRaises(p)) =>
                  /\ outcome'[p] = "error"
                  /\ counts' = [counts EXCEPT !.errored = @ + 1]
                  /\ WalkGoesOn(p)
            /\ Finishes(p) =>
                  /\ outcome[p] = ""
                  /\ outcome'[p] \in {"processed", "skipped", "error"}
                  /\ \A q \in Files \ {p} : outcome'[q] = outcome[q]
                  /\ counts'.processed + counts'.skipped + counts'.errored
                        = counts.processed + counts.skipped + counts.errored + 1
                  /\ WalkGoesOn(p)
       /\ (phase = "walk" /\ phase' = "saving") =>
            (todo = <<>> /\ extracting = <<>> /\ cur = <<>>)
       /\ phase' \in {"walk", "saving", "done"} =>
            /\ counts'.processed = Tally("processed")'
            /\ counts'.skipped = Tally("skipped")'
            /\ counts'.errored = Tally("error")'
            /\ \A i \in 1..Len(todo') : outcome'[todo'[i]] = ""]_vars

\* C14 witness: a run ended in which the tracker update of the first file
\* failed after its entry was added; the file was counted as an error, the
\* files after it were handled, two of them processed.
C14_Witness ==
    /\ phase = "done" /\ runs = 1
    /\ outcome[P1] = "error" /\ P1 \in addedThisRun /\ faults = 1
    /\ outcome[P2] = "processed" /\ outcome[P5] = "processed"
    /\ \A p \in Files : outcome[p] # ""
    /\ counts.processed + counts.skipped + counts.errored = Cardinality(Files)
    /\ counts.errored = 2

----------------------------------------------------------------------------
(* Claims about the end of a run *)

\* C15: a run calls save_all once, when every file of the walk has been
\* handled: the call starts only from the walk with no file left, a run
\* that has started saving never returns to the walk, and from the start of
\* save_all on no entry is added, the tracker does not change and the counts
\* stay as they were; the run is complete only when save_all has returned,
\* whatever number of files were skipped or failed.
C15_SaveAllOnceAtEnd ==
    [][/\ (phase # "saving" /\ phase' = "saving") =>
            (phase = "walk" /\ todo = <<>> /\ extracting = <<>> /\ cur = <<>>)
       /\ phase = "saving" => (phase' \in {"saving", "done", "killed"} /\ runs' = runs)
       /\ (phase # "done" /\ phase' = "done") =>
            (phase = "saving" /\ \A c \in CategorySet : saveLog[c] # "")
       /\ (phase = "done" /\ phase' # "done") => runs' = runs + 1
       /\ (phase \in {"saving", "done"} /\ runs' = runs) =>
            /\ \A c \in CategorySet : Filenames(roots'[c]) = Filenames(roots[c])
            /\ tracked_files' = tracked_files
            /\ trackerDisk' = trackerDisk
            /\ counts' = counts
            /\ outcome' = outcome
            /\ todo' = <<>> /\ extracting' = <<>> /\ cur' = <<>>]_vars

\* C15 witness: a run is complete in which files were skipped and failed and
\* one was processed; every category was saved.
C15_Witness ==
    /\ phase = "done"
    /\ counts.skipped > 0 /\ counts.errored > 0 /\ counts.processed > 0
    /\ \A c \in CategorySet : saveLog[c] = "saved"
    /\ \A p \in Files : fs[p].exists => outcome[p] # ""

----------------------------------------------------------------------------
(* Claims about saving and loading again *)

\* The entries of a root as the claims compare them: attributes and body text
EntriesOf(root) ==
    [i \in 1..Len(root.children) |->
        [attrib |-> root.children[i].attrib, text |-> root.children[i].text]]

\* C16: when a run whose save_all saved every category is followed by a new
\* initialization of the store, each category's loaded document has the same
\* entries in the same order as the document that was saved, with the same
\* attributes and exactly the same body text.
C16_SaveLoadRoundTrip ==
    [][(/\ phase = "done" /\ runs' = runs + 1
        /\ \A c \in CategorySet : saveLog[c] = "saved")
       => \A c \in CategorySet : EntriesOf(roots'[c]) = EntriesOf(roots[c])]_vars

----------------------------------------------------------------------------
(* Claims about add_entry *)

\* C17: add_entry with a category other than external, internal, client
\* fails with the invalid-category error and leaves the three documents as
\* they were; with one of the three categories it does not fail.
C17_InvalidCategoryRaises ==
    [][(ret'.op = "add_entry" /\ calls' = calls + 1) =>
          /\ ret'.arg[1] \notin CategorySet => (ret'.raised /\ roots' = roots)
          /\ ret'.arg[1] \in CategorySet => ~ret'.raised]_vars

\* C17 witness: the call with the category "archive" failed while a document
\* already had an entry.
C17_Witness ==
    /\ ret.op = "add_entry"
    /\ ret.arg[1] = "archive"
    /\ ret.raised
    /\ Len(roots["external"].children) > 0
    /\ \A c \in CategorySet : ~EntryExists(roots[c], ret.arg[2])

----------------------------------------------------------------------------
(* Claims about forgetting a path *)

\* C18: remove_file of a tracked path removes that path and no other from
\* the mapping, leaves every other recorded value as it was, and has the
\* reduced mapping on disk when it returns; remove_file of a path that is not
\* tracked changes neither the mapping nor the tracker file.
C18_RemoveFileExactlyOne ==
    [][(ret'.op = "remove_file" /\ fs' = fs /\ ~ret'.raised) =>
          LET p == ret'.arg[1] IN
          IF p \in DOMAIN tracked_files
          THEN /\ DOMAIN tracked_files' = DOMAIN tracked_files \ {p}
               /\ \A q \in DOMAIN tracked_files' : tracked_files'[q] = tracked_files[q]
               /\ trackerDisk'.kind = "json"
               /\ LoadTracker(trackerDisk').data = tracked_files'
          ELSE /\ tracked_files' = tracked_files
               /\ trackerDisk' = trackerDisk]_vars

\* C18 witness: one of two tracked paths was removed; the other is still
\* tracked, in memory and on disk.
C18_Witness ==
    /\ ret.op = "remove_file" /\ ret.result /\ ~ret.raised
    /\ ret.arg[1] \notin DOMAIN tracked_files
    /\ DOMAIN tracked_files = TrackerFiles \ {ret.arg[1]}
    /\ trackerDisk = TrackerJson(tracked_files)

----------------------------------------------------------------------------
(* Claims about a basename that already has an entry *)

\* The document has an entry whose filename attribute is the given name
HasEntry(root, filename) ==
    \E i \in 1..Len(root.children) : Filenames(root)[i] = filename

\* A due document with a category and extractable text whose basename
\* already has an entry in the document of its category
DueDuplicate(p) ==
    /\ DueDocument(p)
    /\ FirstCategory(p.dir) # ""
    /\ ~TextOf(p).raised /\ ~NoText(TextOf(p).text)
    /\ HasEntry(roots[FirstCategory(p.dir)], Basename(p))

\* C19: when a due file's basename already has an entry in its category,
\* handling it leaves the three documents exactly as they were (the entry
\* keeps the text and attributes it was first written with, no entry is
\* added); the tracker update follows all the same, and when it succeeds the
\* file is recorded with its mtime and counted as processed.
C19_FirstWrittenWins ==
    [][\A p \in Files :
          /\ (Extracts(p) /\ DueDuplicate(p)) =>
                /\ roots' = roots
                /\ cur' = <<p>>
                /\ p \notin addedThisRun'
          /\ (phase = "walk" /\ cur = <<p>> /\ cur' = <<>> /\ p \notin addedThisRun
               /\ fs[p].exists /\ faults' = faults) =>
                /\ outcome'[p] = "processed"
                /\ counts' = [counts EXCEPT !.processed = @ + 1]
                /\ p \in DOMAIN tracked_files' /\ tracked_files'[p] = fs[p].mtime
                /\ LoadTracker(trackerDisk').data = tracked_files'
                /\ roots' = roots]_vars

\* C19 witness: two files with the same basename and category and different
\* texts; the second was counted as processed and is tracked, the document
\* has one entry for the basename, with the text of the first.
C19_Witness ==
    /\ phase = "walk"
    /\ Basename(P1) = Basename(P2) /\ FirstCategory(P1.dir) = FirstCategory(P2.dir)
    /\ TextOf(P1).text # TextOf(P2).text
    /\ P1 \in addedThisRun /\ P2 \notin addedThisRun
    /\ outcome[P1] = "processed" /\ outcome[P2] = "processed"
    /\ P2 \in DOMAIN tracked_files /\ tracked_files[P2] = fs[P2].mtime
    /\ EntriesOf(roots["external"]) =
          << [attrib |-> << <<"filename", Basename(P1)>>, <<"processed_date", NowStr>> >>,
              text |-> TextOf(P1).text] >>

----------------------------------------------------------------------------
(* Claims about the tracker and the output together *)

\* C20: when a run is complete, every path the run recorded in the tracker
\* file has an entry with its basename in the saved document of its
\* category.
C20_TrackedIsPersisted ==
    phase = "done" =>
        \A p \in DOMAIN LoadTracker(trackerDisk).data :
            outcome[p] = "processed" => Persisted(p)

====
